---- MODULE Spec2Model ----
(***************************************************************************)
(* Model of the meson-cli bridge orchestration: the relayer client         *)
(* (api.ts), the signer (signature.ts), the contract service (contract.ts) *)
(* and the two command flows runBridge / runContractBridge (index.ts).     *)
(*                                                                         *)
(* Conventions.  A JavaScript string that may be undefined is a TLA+       *)
(* string, with the value undefined standing for the missing one.  A       *)
(* structured value that may be missing (an envelope's result, its error,  *)
(* a signing request, a thrown error) is a set holding at most one         *)
(* element.  A decimal string is a sequence of characters.                 *)
(***************************************************************************)
EXTENDS Integers, Sequences, FiniteSets, TLC

VARIABLES
    flow,                 \* which command runs: "bridge" or "bridge-contract"
    options,              \* the parsed command options
    env,                  \* process.env.PRIVATE_KEY
    pc,                   \* position of the invocation
    privateKey,           \* runBridge / runContractBridge local
    fromAddress,          \* local: address derived from privateKey
    supportedChains,      \* local: result of getSupportedChains
    swapLimits,           \* local: result of getSwapLimits
    mesonContractAddress, \* runContractBridge local
    fromContractAddress,  \* runContractBridge local
    encodedData,          \* local: result of encodeSwap (at most one element)
    signature,            \* runBridge local
    ctm,                  \* locals of callTransferToMeson
    trace,                \* every relayer request and chain operation issued
    warnings,             \* console.warn lines
    thrown,               \* the error propagating to the command action
    raisedAt,             \* history: the error as first raised, and where
    stderr,               \* the lines console.error printed
    exitCode,             \* process exit status, once the command ended
    vin,                  \* harness: arguments of a validator / decoder call
    vout                  \* harness: outcome of that call

vars == << flow, options, env, pc, privateKey, fromAddress, supportedChains,
           swapLimits, mesonContractAddress, fromContractAddress, encodedData,
           signature, ctm, trace, warnings, thrown, raisedAt, stderr, exitCode,
           vin, vout >>

-----------------------------------------------------------------------------
(* Bounds of the model *)

\* longest decimal string drawn for an amount or a limit
MaxLen == 2
\* longest chain list / token list drawn for a registry snapshot
MaxChains == 2

-----------------------------------------------------------------------------
(* JavaScript values *)

undefined == "<undefined>"

\* !x for a string-or-undefined
Falsy(x) == x = undefined \/ x = ""

Truthy(x) == ~Falsy(x)

\* a || b
OrElse(a, b) == IF Truthy(a) THEN a ELSE b

\* parseFloat yields NaN when no number starts the string
NaN == -1

\* the default of an absent maximum
Infinity == -2

Digits == <<"0", "1", "2", "3", "4", "5", "6", "7", "8", "9">>

IsDigit(ch) == \E d \in 1..10 : Digits[d] = ch

DigitValue(ch) == (CHOOSE d \in 1..10 : Digits[d] = ch) - 1

\* length of the longest prefix of s made of digits
RECURSIVE DigitPrefix(_)
DigitPrefix(s) ==
    IF s = <<>> \/ ~IsDigit(Head(s)) THEN 0 ELSE 1 + DigitPrefix(Tail(s))

RECURSIVE DecimalValue(_, _)
DecimalValue(s, n) ==
    IF n = 0 THEN 0 ELSE 10 * DecimalValue(s, n - 1) + DigitValue(s[n])

\* parseFloat on the strings of the model: the number the longest numeric
\* prefix denotes, NaN when that prefix is empty
parseFloat(s) ==
    IF DigitPrefix(s) = 0 THEN NaN ELSE DecimalValue(s, DigitPrefix(s))

\* a < b on numbers: false as soon as one side is NaN
Less(a, b) ==
    /\ a # NaN
    /\ b # NaN
    /\ a # Infinity
    /\ (b = Infinity \/ a < b)

\* a > b
Greater(a, b) == Less(b, a)

-----------------------------------------------------------------------------
(* signature.ts *)

GoodKeys == {"k1", "k2"}

\* new ethers.Wallet(privateKey) accepts the key
ValidKey(k) == k \in GoodKeys

deriveAddress(k) == IF k = "k1" THEN "0xA1" ELSE "0xA2"

\* wallet.signingKey.sign(messageHash) accepts the digest
ValidHash(h) == h \in {"h1", "h2"}

\* the serialized signature: over the digest itself, no message prefix
signMessageHash(h, k) == << "sig", h, k >>

-----------------------------------------------------------------------------
(* api.ts: MesonApiService *)

\* new Error(message): the message is the list of the template's fragments
Error(fragments) == [message |-> fragments, isAxiosError |-> FALSE]

\* the error axios rejects with (no response, or a status outside 2xx)
AxiosError(reason) == [message |-> << reason >>, isAxiosError |-> TRUE]

\* what a call returns: one value, or one error thrown
Returned(v) == [value |-> {v}, error |-> {}]

Threw(e) == [value |-> {}, error |-> {e}]

\* catch (error) { ...log...; throw error; } of every api method
ApiCatch(error) == error

\* The shared body of the four request methods: await axios(config), then
\* the three-way test on response.data.
ApiDecode_DefaultsOnInvalid(prefix, response) ==
    IF response.rejected THEN Threw(ApiCatch(AxiosError(response.reason)))
    ELSE IF response.data.result # {}
         THEN Returned(CHOOSE r \in response.data.result : TRUE)
         ELSE IF response.data.error # {}
              THEN Threw(ApiCatch(Error(<< prefix,
                       (CHOOSE e \in response.data.error : TRUE).message >>)))
              ELSE Returned(<< >>)

ApiDecode(prefix, response) ==
    IF response.rejected THEN Threw(ApiCatch(AxiosError(response.reason)))
    ELSE IF response.data.result # {}
         THEN Returned(CHOOSE r \in response.data.result : TRUE)
         ELSE IF response.data.error # {}
              THEN Threw(ApiCatch(Error(<< prefix,
                       (CHOOSE e \in response.data.error : TRUE).message >>)))
              ELSE Threw(ApiCatch(Error(<< "Invalid response format from Meson API" >>)))

getSupportedChains(response) ==
    ApiDecode("Error fetching supported chains: ", response)

getSwapLimits(response) ==
    ApiDecode("Error fetching swap limits: ", response)

\* the request body of encodeSwap: five mandatory fields, and the two
\* optional ones only when truthy
encodeSwapPayload_AlwaysFlags(from, to, amount, fromAddr, recipient, fromContract, dataToContract) ==
    [from |-> from, to |-> to, amount |-> amount,
     fromAddress |-> fromAddr, recipient |-> recipient,
     fromContract |-> (fromContract = {TRUE})]
    @@ (IF Truthy(dataToContract) THEN [dataToContract |-> dataToContract] ELSE << >>)

\* the body encodeSwap posts; fromContract?: boolean is a set holding at most
\* one boolean
encodeSwapPayload(from, to, amount, fromAddr, recipient, fromContract, dataToContract) ==
    [from |-> from, to |-> to, amount |-> amount,
     fromAddress |-> fromAddr, recipient |-> recipient]
    @@ (IF fromContract = {TRUE} THEN [fromContract |-> TRUE] ELSE << >>)
    @@ (IF Truthy(dataToContract) THEN [dataToContract |-> dataToContract] ELSE << >>)

encodeSwap(response) ==
    ApiDecode("Error encoding swap: ", response)

submitSwap(response) ==
    ApiDecode("Error submitting swap: ", response)

\* the relayer's answers to one request: axios rejects, or resolves with a
\* body holding a result, an error, both or neither
Rejections == {"Network Error", "Request failed with status code 400"}

RelayerErrors == {[code |-> c, message |-> m] : c \in {-32000, 400}, m \in {"bad request", ""}}

Body(result, error) ==
    [rejected |-> FALSE, reason |-> undefined, data |-> [result |-> result, error |-> error]]

Rejected(reason) ==
    [rejected |-> TRUE, reason |-> reason, data |-> [result |-> {}, error |-> {}]]

\* every answer, for the decoder on its own
AllResponses(results) ==
    {Rejected(r) : r \in Rejections}
    \cup {Body(res, err) : res \in {{}} \cup {{v} : v \in results},
                           err \in {{}} \cup {{e} : e \in RelayerErrors}}

\* the answers a flow is run against: one of each shape
FlowResponses(results) ==
    {Rejected("Network Error"),
     Body({}, {[code |-> 400, message |-> "bad request"]}),
     Body({}, {})}
    \cup {Body({v}, {}) : v \in results}

-----------------------------------------------------------------------------
(* index.ts: the validators *)

\* list.find(x => x.id === id): the index of the first element with that id,
\* 0 if there is none
Find(list, id) ==
    IF \E i \in 1..Len(list) : list[i].id = id
    THEN CHOOSE i \in 1..Len(list) :
             list[i].id = id /\ \A j \in 1..(i - 1) : list[j].id # id
    ELSE 0

\* type.charAt(0).toUpperCase() + type.slice(1)
Capitalize(type) ==
    CASE type = "source" -> "Source"
      [] type = "destination" -> "Destination"
      [] OTHER -> type

\* validateChainToken: {} when it returns, the error when it throws
validateChainToken_AnyChain(chains, chainId, tokenId, type) ==
    IF \A i \in 1..Len(chains) : Find(chains[i].tokens, tokenId) = 0
    THEN {Error(<< Capitalize(type), " token '", tokenId,
                   "' is not supported on chain '", chainId, "'." >>)}
    ELSE {}

validateChainToken(chains, chainId, tokenId, type) ==
    LET chainInfo == Find(chains, chainId)
    IN  IF chainInfo = 0
        THEN {Error(<< Capitalize(type), " chain '", chainId, "' is not supported." >>)}
        ELSE LET tokenInfo == Find(chains[chainInfo].tokens, tokenId)
             IN  IF tokenInfo = 0
                 THEN {Error(<< Capitalize(type), " token '", tokenId,
                                "' is not supported on chain '", chainId, "'." >>)}
                 ELSE {}

\* tokenLimit.min ? parseFloat(tokenLimit.min) : 0, and the same for max:
\* a bound is missing when the field is absent or the empty string
Bound(field, default) ==
    IF field = {} \/ field = {<< >>} THEN default
    ELSE parseFloat(CHOOSE x \in field : TRUE)

\* validateAmount: the error thrown (none when it returns) and the warning
\* printed (none when the limits are checked)
validateAmount_RequiresLimits(limits, chainId, tokenId, amount) ==
    LET chainLimit == Find(limits, chainId)
    IN  IF chainLimit = 0
        THEN [error |-> {Error(<< "no limits for chain", chainId >>)}, warning |-> << >>]
        ELSE LET tokenLimit == Find(limits[chainLimit].tokens, tokenId)
             IN  IF tokenLimit = 0
                 THEN [error |-> {Error(<< "no limits for token", tokenId, chainId >>)},
                       warning |-> << >>]
                 ELSE LET minSwap == Bound(limits[chainLimit].tokens[tokenLimit].min, 0)
                          maxSwap == Bound(limits[chainLimit].tokens[tokenLimit].max, Infinity)
                      IN  IF Less(amount, minSwap) \/ Greater(amount, maxSwap)
                          THEN [error |-> {Error(<< "Amount ", ToString(amount),
                                    " is outside the allowed limits for ", tokenId,
                                    " on ", chainId, ToString(minSwap), ToString(maxSwap) >>)},
                                warning |-> << >>]
                          ELSE [error |-> {}, warning |-> << >>]

validateAmount(limits, chainId, tokenId, amount) ==
    LET chainLimit == Find(limits, chainId)
    IN  IF chainLimit = 0
        THEN [error |-> {}, warning |-> << << "no limits for chain", chainId >> >>]
        ELSE LET tokenLimit == Find(limits[chainLimit].tokens, tokenId)
             IN  IF tokenLimit = 0
                 THEN [error |-> {},
                       warning |-> << << "no limits for token", tokenId, chainId >> >>]
                 ELSE LET minSwap == Bound(limits[chainLimit].tokens[tokenLimit].min, 0)
                          maxSwap == Bound(limits[chainLimit].tokens[tokenLimit].max, Infinity)
                      IN  IF Less(amount, minSwap) \/ Greater(amount, maxSwap)
                          THEN [error |-> {Error(<< "Amount ", ToString(amount),
                                    " is outside the allowed limits for ", tokenId,
                                    " on ", chainId, ToString(minSwap), ToString(maxSwap) >>)},
                                warning |-> << >>]
                          ELSE [error |-> {}, warning |-> << >>]

-----------------------------------------------------------------------------
(* contract.ts *)

\* findContractAddress: the address field of the first chain with that id,
\* null (here undefined: only ever tested with !) when there is none
findContractAddress_AnyChain(chains, chainId) ==
    IF \E i \in 1..Len(chains) : Truthy(chains[i].address)
    THEN chains[CHOOSE i \in 1..Len(chains) : Truthy(chains[i].address)].address
    ELSE undefined

findContractAddress(chains, chainId) ==
    LET chain == Find(chains, chainId)
    IN  IF chain = 0 THEN undefined ELSE chains[chain].address

\* one relayer request, signing or chain operation, as the trace records it
Ev(op, arg) == [op |-> op, arg |-> arg]

\* what the chain can answer to a deployment
DeployOutcomes == {"deployRejected", "waitRejected", "mined"}

DeployedAddress == "0xD1"

\* deployTransferToMesonContract: factory.deploy(mesonContractAddress), then
\* deploymentTransaction().wait(), then getAddress(); the catch rethrows
deployTransferToMesonContract(mesonAddress, wallet, outcome) ==
    LET deploy == Ev("deploy", [constructorArg |-> mesonAddress, wallet |-> wallet])
        wait == Ev("deployWait", [wallet |-> wallet])
    IN  CASE outcome = "deployRejected" ->
               [events |-> << deploy >>,
                result |-> Threw(Error(<< "deployment rejected" >>))]
          [] outcome = "waitRejected" ->
               [events |-> << deploy, wait >>,
                result |-> Threw(Error(<< "deployment not mined" >>))]
          [] OTHER ->
               [events |-> << deploy, wait >>, result |-> Returned(DeployedAddress)]

\* ethers.parseEther accepts a plain decimal string
ValidEther(amount) == amount # << >> /\ DigitPrefix(amount) = Len(amount)

\* gasEstimate * BigInt(12) / BigInt(10)
GasLimit_DividesFirst(gasEstimate) == (gasEstimate \div 10) * 12

GasLimit(gasEstimate) == (gasEstimate * 12) \div 10

GasEstimates == {100000, 100001, 21009}

TxHash == "0xTX"

\* the error callTransferToMeson throws when it has no transfer contract
\* and is not asked to deploy one
MissingTransferContract ==
    Error(<< "TransferToMeson contract address not provided and deployment not requested" >>)

CtmIdle ==
    [transferToMesonAddress |-> undefined, initiator |-> undefined,
     deployIfMissing |-> FALSE, gasEstimate |-> 0, gasLimit |-> 0, hash |-> undefined]

-----------------------------------------------------------------------------
(* Inputs of an invocation *)

Chain(id, address, tokens) ==
    [id |-> id, address |-> address, tokens |-> [i \in 1..Len(tokens) |-> [id |-> tokens[i]]]]

TokenLimit(id, min, max) == [id |-> id, min |-> min, max |-> max]

ChainLimit(id, tokens) == [id |-> id, tokens |-> tokens]

\* a --from / --to value, as the list of its colon-separated pieces
Froms == {<< "eth", "usdc" >>}

Tos == {<< "bsc", "usdc" >>}

\* from.split(':'), destructured into [chain, token]
ChainOf(pieces) == IF Len(pieces) >= 1 THEN pieces[1] ELSE undefined

TokenOf(pieces) == IF Len(pieces) >= 2 THEN pieces[2] ELSE undefined

FlowAmounts == {<< "1" >>, << "3" >>, << "x" >>}

\* answers of GET /list a flow is run against
FlowChainLists ==
    {<< Chain("eth", "0xAAA", << "usdc" >>), Chain("bsc", "0xBBB", << "usdc" >>) >>,
     << Chain("eth", "", << "usdc" >>), Chain("bsc", "0xBBB", << "usdc" >>) >>,
     << Chain("bsc", "0xBBB", << "usdc" >>) >>,
     << Chain("eth", "0xAAA", << "usdc" >>), Chain("bsc", "0xBBB", << "eth" >>) >>}

\* answers of GET /limits a flow is run against
FlowLimitLists ==
    {<< >>,
     << ChainLimit("bsc", << >>) >>,
     << ChainLimit("bsc", << TokenLimit("usdc", {<< "2" >>}, {<< "3" >>}) >>) >>,
     << ChainLimit("bsc", << TokenLimit("usdc", {}, {}) >>) >>}

\* results of POST /swap
EncodeResults ==
    {[encoded |-> e, signingRequest |-> sr, initiator |-> i, fromContract |-> fc] :
        e \in {undefined, "", "0xabc"},
        sr \in {{}} \cup {{[message |-> "m", hash |-> h]} : h \in {"h1", "hbad"}},
        i \in {undefined, "0xI"},
        fc \in {undefined, "0xF"}}

SubmitResults == {[swapId |-> "sw1"]}

BridgeOptions ==
    {[from |-> f, to |-> t, amount |-> a, recipient |-> "0xR",
      privateKey |-> k, dryRun |-> d,
      mesonContract |-> undefined, transferContract |-> undefined,
      deployIfMissing |-> FALSE] :
        f \in Froms, t \in Tos, a \in FlowAmounts,
        k \in {undefined, "k1", "kbad"}, d \in BOOLEAN}

ContractBridgeOptions ==
    {[from |-> f, to |-> t, amount |-> a, recipient |-> "0xR",
      privateKey |-> k, dryRun |-> d,
      mesonContract |-> m, transferContract |-> tc,
      deployIfMissing |-> dep] :
        f \in Froms, t \in Tos, a \in FlowAmounts,
        k \in {undefined, "k1", "kbad"}, d \in BOOLEAN,
        m \in {undefined, "0xM"}, tc \in {undefined, "0xT"}, dep \in BOOLEAN}

-----------------------------------------------------------------------------
(* index.ts: the two commands *)

input == << flow, options, env >>

locals == << privateKey, fromAddress, supportedChains, swapLimits,
             mesonContractAddress, fromContractAddress, encodedData, signature, ctm >>

harness == << vin, vout >>

IdleHarness == vin = << >> /\ vout = << >>

InitFlow ==
    /\ flow \in {"bridge", "bridge-contract"}
    /\ options \in (IF flow = "bridge" THEN BridgeOptions ELSE ContractBridgeOptions)
    /\ env \in {undefined, "k2"}
    /\ pc = "start"
    /\ privateKey = undefined
    /\ fromAddress = undefined
    /\ supportedChains = << >>
    /\ swapLimits = << >>
    /\ mesonContractAddress = undefined
    /\ fromContractAddress = undefined
    /\ encodedData = {}
    /\ signature = << >>
    /\ ctm = CtmIdle
    /\ trace = << >>
    /\ warnings = << >>
    /\ thrown = {}
    /\ raisedAt = {}
    /\ stderr = << >>
    /\ exitCode = {}
    /\ IdleHarness

\* throw: the error leaves the flow for the command action's catch
Raise(e, at) ==
    /\ thrown' = {e}
    /\ raisedAt' = {[error |-> e, at |-> at]}
    /\ pc' = "caught"

Goto(next) ==
    /\ pc' = next
    /\ UNCHANGED << thrown, raisedAt >>

\* const privateKey = optionsPrivateKey || process.env.PRIVATE_KEY
ResolvedKey_EnvFirst(optionKey, envKey) == OrElse(envKey, optionKey)

ResolvedKey(optionKey, envKey) == OrElse(optionKey, envKey)

\* 1. Get Private Key, and derive the address
GetPrivateKey ==
    /\ pc = "start"
    /\ LET key == ResolvedKey(options.privateKey, env)
       IN  /\ privateKey' = key
           /\ IF Falsy(key)
              THEN /\ Raise(Error(<< "Private key must be provided via --private-key option or PRIVATE_KEY environment variable." >>), "key")
                   /\ UNCHANGED fromAddress
              ELSE IF ~ValidKey(key)
              THEN /\ Raise(Error(<< "invalid private key" >>), "derive")
                   /\ UNCHANGED fromAddress
              ELSE /\ fromAddress' = deriveAddress(key)
                   /\ Goto("fetchChains")
    /\ UNCHANGED << input, supportedChains, swapLimits, mesonContractAddress,
                    fromContractAddress, encodedData, signature, ctm, trace,
                    warnings, stderr, exitCode, harness >>

\* 2. await api.getSupportedChains()
FetchChains ==
    /\ pc = "fetchChains"
    /\ \E response \in FlowResponses(FlowChainLists) :
         LET out == getSupportedChains(response)
         IN  /\ trace' = Append(trace, Ev("getSupportedChains", << >>))
             /\ IF out.error # {}
                THEN /\ Raise(CHOOSE e \in out.error : TRUE, "getSupportedChains")
                     /\ UNCHANGED supportedChains
                ELSE /\ supportedChains' = (CHOOSE v \in out.value : TRUE)
                     /\ Goto("fetchLimits")
    /\ UNCHANGED << input, privateKey, fromAddress, swapLimits, mesonContractAddress,
                    fromContractAddress, encodedData, signature, ctm,
                    warnings, stderr, exitCode, harness >>

\* await api.getSwapLimits()
FetchLimits ==
    /\ pc = "fetchLimits"
    /\ \E response \in FlowResponses(FlowLimitLists) :
         LET out == getSwapLimits(response)
         IN  /\ trace' = Append(trace, Ev("getSwapLimits", << >>))
             /\ IF out.error # {}
                THEN /\ Raise(CHOOSE e \in out.error : TRUE, "getSwapLimits")
                     /\ UNCHANGED swapLimits
                ELSE /\ swapLimits' = (CHOOSE v \in out.value : TRUE)
                     /\ Goto("validate")
    /\ UNCHANGED << input, privateKey, fromAddress, supportedChains, mesonContractAddress,
                    fromContractAddress, encodedData, signature, ctm,
                    warnings, stderr, exitCode, harness >>

\* Parse input parameters, then the three validations in order: the first
\* one that throws ends it.  The error, where it was thrown, and the warnings.
Validation_SkipsDestination(chains, limits, opts) ==
    LET fromChain == ChainOf(opts.from)
        fromToken == TokenOf(opts.from)
        toChain == ChainOf(opts.to)
        toToken == TokenOf(opts.to)
        amountFloat == parseFloat(opts.amount)
        source == validateChainToken(chains, fromChain, fromToken, "source")
        amount == validateAmount(limits, toChain, toToken, amountFloat)
    IN  IF source # {}
        THEN [error |-> source, at |-> "validateSource", warning |-> << >>]
        ELSE [error |-> amount.error, at |-> "validateAmount", warning |-> amount.warning]

\* the same three validations, run against a registry snapshot kept from an
\* earlier invocation
Validation_UsesKeptChains(chains, limits, opts) ==
    LET kept == << Chain("eth", "0xAAA", << "usdc" >>), Chain("bsc", "0xBBB", << "usdc" >>) >>
        source == validateChainToken(kept, ChainOf(opts.from), TokenOf(opts.from), "source")
        destination == validateChainToken(kept, ChainOf(opts.to), TokenOf(opts.to), "destination")
        amount == validateAmount(limits, ChainOf(opts.to), TokenOf(opts.to), parseFloat(opts.amount))
    IN  IF source # {}
        THEN [error |-> source, at |-> "validateSource", warning |-> << >>]
        ELSE IF destination # {}
        THEN [error |-> destination, at |-> "validateDestination", warning |-> << >>]
        ELSE [error |-> amount.error, at |-> "validateAmount", warning |-> amount.warning]

Validation(chains, limits, opts) ==
    LET fromChain == ChainOf(opts.from)
        fromToken == TokenOf(opts.from)
        toChain == ChainOf(opts.to)
        toToken == TokenOf(opts.to)
        amountFloat == parseFloat(opts.amount)
        source == validateChainToken(chains, fromChain, fromToken, "source")
        destination == validateChainToken(chains, toChain, toToken, "destination")
        amount == validateAmount(limits, toChain, toToken, amountFloat)
    IN  IF source # {}
        THEN [error |-> source, at |-> "validateSource", warning |-> << >>]
        ELSE IF destination # {}
        THEN [error |-> destination, at |-> "validateDestination", warning |-> << >>]
        ELSE [error |-> amount.error, at |-> "validateAmount", warning |-> amount.warning]

Validate ==
    /\ pc = "validate"
    /\ LET v == Validation(supportedChains, swapLimits, options)
       IN  /\ warnings' = warnings \o v.warning
           /\ IF v.error # {}
              THEN Raise(CHOOSE e \in v.error : TRUE, v.at)
              ELSE Goto(IF flow = "bridge" THEN "encode" ELSE "resolve")
    /\ UNCHANGED << input, locals, trace, stderr, exitCode, harness >>

\* the error both flows throw for an encode result they cannot use
FailedToEncode ==
    Error(<< "Failed to encode swap: missing required data in response" >>)

\* runBridge: if (!encodedData.encoded || !encodedData.signingRequest)
MissingRequiredData_EncodedOnly(data) == Falsy(data.encoded)

MissingRequiredData(data) == Falsy(data.encoded) \/ data.signingRequest = {}

\* runBridge 3. Encode Swap, and the check of what came back
Encode ==
    /\ pc = "encode"
    /\ flow = "bridge"
    /\ \E response \in FlowResponses(EncodeResults) :
         LET payload == encodeSwapPayload(options.from, options.to, options.amount,
                                          fromAddress, options.recipient, {}, undefined)
             out == encodeSwap(response)
         IN  /\ trace' = Append(trace, Ev("encodeSwap", payload))
             /\ IF out.error # {}
                THEN /\ Raise(CHOOSE e \in out.error : TRUE, "encodeSwap")
                     /\ UNCHANGED encodedData
                ELSE LET data == CHOOSE v \in out.value : TRUE
                     IN  /\ encodedData' = {data}
                         /\ IF MissingRequiredData(data)
                            THEN Raise(FailedToEncode, "checkEncoded")
                            ELSE Goto("sign")
    /\ UNCHANGED << input, privateKey, fromAddress, supportedChains, swapLimits,
                    mesonContractAddress, fromContractAddress, signature, ctm,
                    warnings, stderr, exitCode, harness >>

\* 5. Submit Swap (or skip if dry run): where runBridge goes once it signed
AfterSign_IgnoresDryRun(dryRun) == "submit"

AfterSign_NeverSettles(dryRun) == IF dryRun THEN "returned" ELSE "pending"

AfterSign(dryRun) == IF dryRun THEN "returned" ELSE "submit"

\* the key runBridge signs with: the one the address was derived from
SigningKey_FromEnv(key, envKey) == OrElse(envKey, key)

SigningKey(key, envKey) == key

\* runBridge 4. Sign Message Hash, then the dry-run stop
Sign ==
    /\ pc = "sign"
    /\ LET data == CHOOSE d \in encodedData : TRUE
           hash == (CHOOSE r \in data.signingRequest : TRUE).hash
           key == SigningKey(privateKey, env)
       IN  /\ trace' = Append(trace, Ev("signMessageHash", [hash |-> hash, privateKey |-> key]))
           /\ IF ~ValidHash(hash)
              THEN /\ Raise(Error(<< "invalid digest" >>), "signMessageHash")
                   /\ stderr' = Append(stderr, << "Error signing message hash:",
                                                  << "invalid digest" >> >>)
                   /\ UNCHANGED signature
              ELSE /\ signature' = signMessageHash(hash, key)
                   /\ Goto(AfterSign(options.dryRun))
                   /\ UNCHANGED stderr
    /\ UNCHANGED << input, privateKey, fromAddress, supportedChains, swapLimits,
                    mesonContractAddress, fromContractAddress, encodedData, ctm,
                    warnings, exitCode, harness >>

\* runBridge 5. Submit Swap
Submit ==
    /\ pc = "submit"
    /\ \E response \in FlowResponses(SubmitResults) :
         LET data == CHOOSE d \in encodedData : TRUE
             out == submitSwap(response)
         IN  /\ trace' = Append(trace, Ev("submitSwap",
                            [encodedSwap |-> data.encoded, fromAddress |-> fromAddress,
                             recipient |-> options.recipient, signature |-> signature]))
             /\ IF out.error # {}
                THEN Raise(CHOOSE e \in out.error : TRUE, "submitSwap")
                ELSE Goto("returned")
    /\ UNCHANGED << input, locals, warnings, stderr, exitCode, harness >>

\* if (!fromContractAddress && deployIfMissing && !dryRun)
NeedsDeploy_IgnoresDryRun(address, deployIfMissing, dryRun) ==
    Falsy(address) /\ deployIfMissing

NeedsDeploy(address, deployIfMissing, dryRun) ==
    Falsy(address) /\ deployIfMissing /\ ~dryRun

\* runContractBridge 3. Determine Meson contract address
ResolveMeson ==
    /\ pc = "resolve"
    /\ fromContractAddress' = options.transferContract
    /\ LET found == findContractAddress(supportedChains, ChainOf(options.from))
           deploys == NeedsDeploy(options.transferContract, options.deployIfMissing,
                                  options.dryRun)
       IN  IF Truthy(options.mesonContract)
           THEN /\ mesonContractAddress' = options.mesonContract
                /\ Goto(IF deploys THEN "deploy" ELSE "encodeContract")
           ELSE IF Falsy(found)
           THEN /\ Raise(Error(<< "Could not find Meson contract address for chain ",
                                  ChainOf(options.from),
                                  ". Please provide it with --meson-contract option." >>),
                         "resolve")
                /\ UNCHANGED mesonContractAddress
           ELSE /\ mesonContractAddress' = found
                /\ Goto(IF deploys THEN "deploy" ELSE "encodeContract")
    /\ UNCHANGED << input, privateKey, fromAddress, supportedChains, swapLimits,
                    encodedData, signature, ctm, trace, warnings, stderr, exitCode,
                    harness >>

\* new ethers.Wallet(privateKey), and wallet.connect(this.provider)
Wallet(key) == [privateKey |-> key, connected |-> FALSE]

Connected(wallet) == [wallet EXCEPT !.connected = TRUE]

\* runContractBridge: deploy the transfer contract when there is none yet
Deploy ==
    /\ pc = "deploy"
    /\ \E outcome \in DeployOutcomes :
         LET d == deployTransferToMesonContract(mesonContractAddress, Wallet(privateKey), outcome)
         IN  /\ trace' = trace \o d.events
             /\ IF d.result.error # {}
                THEN /\ Raise(CHOOSE e \in d.result.error : TRUE, "deploy")
                     /\ UNCHANGED fromContractAddress
                ELSE /\ fromContractAddress' = (CHOOSE a \in d.result.value : TRUE)
                     /\ Goto("encodeContract")
    /\ UNCHANGED << input, privateKey, fromAddress, supportedChains, swapLimits,
                    mesonContractAddress, encodedData, signature, ctm,
                    warnings, stderr, exitCode, harness >>

\* deployIfMissing && !fromContractAddress, the last argument of the call
DeployIfMissingArg_PassesFlag(deployIfMissing, address) == deployIfMissing

DeployIfMissingArg(deployIfMissing, address) == deployIfMissing /\ Falsy(address)

\* 5. Execute Contract Call (or skip if dry run)
AfterEncodeContract_IgnoresDryRun(dryRun) == "callTransferToMeson"

AfterEncodeContract(dryRun) == IF dryRun THEN "returned" ELSE "callTransferToMeson"

\* const encodingFromAddress = fromContractAddress || fromAddress
EncodingFromAddress_WalletOnly(contractAddress, walletAddress) == walletAddress

EncodingFromAddress(contractAddress, walletAddress) ==
    OrElse(contractAddress, walletAddress)

\* if (!encodedData.initiator) encodedData.initiator = initiator
Backfilled(data, initiator) ==
    IF Falsy(data.initiator) THEN [data EXCEPT !.initiator = initiator] ELSE data

\* Update fromContract from API response if available: the transfer contract
\* after the encode response was read
TransferContractAfterEncode_IgnoresRelayer(address, data) == address

TransferContractAfterEncode(address, data) ==
    IF Truthy(data.fromContract) /\ Falsy(address)
    THEN data.fromContract
    ELSE address

\* runContractBridge: if (!encodedData.encoded)
MissingEncoded_WantsSigningRequest(data) ==
    Falsy(data.encoded) \/ data.signingRequest = {}

MissingEncoded(data) == Falsy(data.encoded)

\* runContractBridge 4. Encode Swap with fromContract=true, the initiator
\* backfill, the check of the result, and the dry-run stop
EncodeContract ==
    /\ pc = "encodeContract"
    /\ \E response \in FlowResponses(EncodeResults) :
         LET encodingFromAddress == EncodingFromAddress(fromContractAddress, fromAddress)
             initiator == fromAddress
             payload == encodeSwapPayload(options.from, options.to, options.amount,
                                          encodingFromAddress, options.recipient,
                                          {TRUE}, undefined)
             out == encodeSwap(response)
         IN  /\ trace' = Append(trace, Ev("encodeSwap", payload))
             /\ IF out.error # {}
                THEN /\ Raise(CHOOSE e \in out.error : TRUE, "encodeSwap")
                     /\ UNCHANGED << encodedData, fromContractAddress >>
                ELSE LET got == CHOOSE v \in out.value : TRUE
                         data == Backfilled(got, initiator)
                     IN  /\ encodedData' = {data}
                         /\ IF MissingEncoded(data)
                            THEN /\ Raise(FailedToEncode, "checkEncoded")
                                 /\ UNCHANGED fromContractAddress
                            ELSE /\ fromContractAddress' =
                                      TransferContractAfterEncode(fromContractAddress, data)
                                 /\ Goto(AfterEncodeContract(options.dryRun))
    /\ UNCHANGED << input, privateKey, fromAddress, supportedChains, swapLimits,
                    mesonContractAddress, signature, ctm,
                    warnings, stderr, exitCode, harness >>

\* callTransferToMeson, up to the contract instance: the transfer contract is
\* the one passed in, or one deployed here, or the call throws
CallTransferToMeson ==
    /\ pc = "callTransferToMeson"
    /\ LET data == CHOOSE d \in encodedData : TRUE
           transferContractAddress == fromContractAddress
           deployIfMissing == DeployIfMissingArg(options.deployIfMissing, fromContractAddress)
       IN  IF Falsy(transferContractAddress) /\ deployIfMissing
           THEN \E outcome \in DeployOutcomes :
                  LET d == deployTransferToMesonContract(mesonContractAddress,
                                                         Connected(Wallet(privateKey)), outcome)
                  IN  /\ trace' = trace \o d.events
                      /\ IF d.result.error # {}
                         THEN /\ Raise(CHOOSE e \in d.result.error : TRUE, "deploy")
                              /\ UNCHANGED ctm
                         ELSE /\ ctm' = [ctm EXCEPT
                                     !.transferToMesonAddress = CHOOSE a \in d.result.value : TRUE,
                                     !.initiator = data.initiator,
                                     !.deployIfMissing = deployIfMissing]
                              /\ Goto("estimateGas")
           ELSE IF Falsy(transferContractAddress)
           THEN /\ Raise(MissingTransferContract, "callTransferToMeson")
                /\ UNCHANGED << ctm, trace >>
           ELSE /\ ctm' = [ctm EXCEPT
                       !.transferToMesonAddress = transferContractAddress,
                       !.initiator = data.initiator,
                       !.deployIfMissing = deployIfMissing]
                /\ UNCHANGED trace
                /\ Goto("estimateGas")
    /\ UNCHANGED << input, privateKey, fromAddress, supportedChains, swapLimits,
                    mesonContractAddress, fromContractAddress, encodedData, signature,
                    warnings, stderr, exitCode, harness >>

\* transferToMeson.populateTransaction(...), then provider.estimateGas(tx),
\* then the 20% buffer
EstimateGas ==
    /\ pc = "estimateGas"
    /\ IF ~ValidEther(options.amount)
       THEN /\ Raise(Error(<< "invalid decimal value" >>), "parseEther")
            /\ UNCHANGED << ctm, trace >>
       ELSE /\ trace' = Append(trace, Ev("estimateGas",
                            [to |-> ctm.transferToMesonAddress,
                             encodedSwap |-> (CHOOSE d \in encodedData : TRUE).encoded,
                             initiator |-> ctm.initiator, value |-> options.amount]))
            /\ \E answer \in GasEstimates \cup {NaN} :
                 IF answer = NaN
                 THEN /\ Raise(Error(<< "cannot estimate gas" >>), "estimateGas")
                      /\ UNCHANGED ctm
                 ELSE /\ ctm' = [ctm EXCEPT !.gasEstimate = answer,
                                            !.gasLimit = GasLimit(answer)]
                      /\ Goto("send")
    /\ UNCHANGED << input, privateKey, fromAddress, supportedChains, swapLimits,
                    mesonContractAddress, fromContractAddress, encodedData, signature,
                    warnings, stderr, exitCode, harness >>

\* connectedWallet.sendTransaction({...tx, gasLimit})
SendTransaction ==
    /\ pc = "send"
    /\ trace' = Append(trace, Ev("sendTransaction",
                     [to |-> ctm.transferToMesonAddress,
                      encodedSwap |-> (CHOOSE d \in encodedData : TRUE).encoded,
                      initiator |-> ctm.initiator, value |-> options.amount,
                      gasLimit |-> ctm.gasLimit, wallet |-> privateKey]))
    /\ \E accepted \in BOOLEAN :
         IF accepted
         THEN /\ ctm' = [ctm EXCEPT !.hash = TxHash]
              /\ Goto("wait")
         ELSE /\ Raise(Error(<< "transaction rejected" >>), "sendTransaction")
              /\ UNCHANGED ctm
    /\ UNCHANGED << input, privateKey, fromAddress, supportedChains, swapLimits,
                    mesonContractAddress, fromContractAddress, encodedData, signature,
                    warnings, stderr, exitCode, harness >>

\* what runContractBridge issues once callTransferToMeson returned the hash:
\* it prints the hash and the explorer link, and nothing else
AfterTransaction_SubmitsToRelayer(encoded, txHash) ==
    << Ev("submitSwapFromContract", [encodedSwap |-> encoded, hash |-> txHash]) >>

AfterTransaction(encoded, txHash) == << >>

\* await response.wait(): the call goes on to return response.hash when
\* the wait resolved, and throws when it rejected
Awaited_IgnoresRejection(mined) == TRUE

Awaited(mined) == mined

\* response.wait(), then return response.hash to runContractBridge
WaitTransaction ==
    /\ pc = "wait"
    /\ \E mined \in BOOLEAN :
         IF Awaited(mined)
         THEN /\ trace' = Append(trace, Ev("wait", [hash |-> ctm.hash, mined |-> mined]))
                          \o AfterTransaction((CHOOSE d \in encodedData : TRUE).encoded, ctm.hash)
              /\ Goto("returned")
         ELSE /\ trace' = Append(trace, Ev("wait", [hash |-> ctm.hash, mined |-> mined]))
              /\ Raise(Error(<< "transaction failed" >>), "wait")
    /\ UNCHANGED << input, locals, warnings, stderr, exitCode, harness >>

\* the command action when the flow returned: the process ends with status 0
CommandReturn ==
    /\ pc = "returned"
    /\ pc' = "exited"
    /\ exitCode' = {0}
    /\ UNCHANGED << input, locals, trace, warnings, thrown, raisedAt, stderr, harness >>

\* error instanceof Error ? error.message : String(error)
Printed_Generic(error) == << "Bridge failed" >>

Printed(error) == error.message

\* process.exit(1)
ExitStatusOnError_Zero(error) == 0

ExitStatusOnError(error) == 1

\* the command action's catch: print error.message, process.exit(1)
CommandCatch ==
    /\ pc = "caught"
    /\ pc' = "exited"
    /\ stderr' = Append(stderr, << "\nError:", Printed(CHOOSE e \in thrown : TRUE) >>)
    /\ exitCode' = {ExitStatusOnError(CHOOSE e \in thrown : TRUE)}
    /\ UNCHANGED << input, locals, trace, warnings, thrown, raisedAt, harness >>

Next ==
    \/ GetPrivateKey
    \/ FetchChains
    \/ FetchLimits
    \/ Validate
    \/ Encode
    \/ Sign
    \/ Submit
    \/ ResolveMeson
    \/ Deploy
    \/ EncodeContract
    \/ CallTransferToMeson
    \/ EstimateGas
    \/ SendTransaction
    \/ WaitTransaction
    \/ CommandReturn
    \/ CommandCatch

Spec == InitFlow /\ [][Next]_vars

\* every awaited relayer or chain call settles, so the step that awaits it is
\* taken; the steps in between are plain code
FairSpec == Spec /\ WF_vars(Next)

-----------------------------------------------------------------------------
(* The validators and the request methods on their own: the arguments are  *)
(* drawn by the initial state, one action makes the call.                  *)

IdleFlow ==
    /\ flow = "none"
    /\ options = << >>
    /\ env = undefined
    /\ pc = "call"
    /\ privateKey = undefined
    /\ fromAddress = undefined
    /\ supportedChains = << >>
    /\ swapLimits = << >>
    /\ mesonContractAddress = undefined
    /\ fromContractAddress = undefined
    /\ encodedData = {}
    /\ signature = << >>
    /\ ctm = CtmIdle
    /\ trace = << >>
    /\ warnings = << >>
    /\ thrown = {}
    /\ raisedAt = {}
    /\ stderr = << >>
    /\ exitCode = {}

flowVars == << flow, options, env, privateKey, fromAddress, supportedChains,
               swapLimits, mesonContractAddress, fromContractAddress, encodedData,
               signature, ctm, trace, warnings, thrown, raisedAt, stderr, exitCode >>

\* sequences over S of length at most n
SeqsUpTo(S, n) == UNION {[1..k -> S] : k \in 0..n}

ChainIds == {"eth", "bsc", "base"}

TokenIds == {"usdc", "eth"}

\* ids asked about: the listed ones and one no registry lists
AskedChainIds == ChainIds \cup {"arb"}

AskedTokenIds == TokenIds \cup {"dai"}

\* a list of chains is keyed by id: no two entries share one
DistinctIds(list) == \A i, j \in 1..Len(list) : list[i].id = list[j].id => i = j

\* every registry snapshot of at most MaxChains chains of at most MaxChains tokens
ChainLists ==
    {l \in SeqsUpTo({Chain(id, "0xAAA", toks) :
                        id \in ChainIds, toks \in SeqsUpTo(TokenIds, MaxChains)},
                    MaxChains) : DistinctIds(l)}

InitChainToken ==
    /\ IdleFlow
    /\ vin \in {[chains |-> l, chainId |-> c, tokenId |-> t, type |-> r] :
                   l \in ChainLists, c \in AskedChainIds, t \in AskedTokenIds,
                   r \in {"source", "destination"}}
    /\ vout = << >>

CallValidateChainToken ==
    /\ pc = "call"
    /\ pc' = "called"
    /\ vout' = [error |-> validateChainToken(vin.chains, vin.chainId, vin.tokenId, vin.type),
                chains |-> vin.chains]
    /\ UNCHANGED << flowVars, vin >>

NextChainToken == CallValidateChainToken

SpecChainToken == InitChainToken /\ [][NextChainToken]_vars

\* decimal strings of at most MaxLen characters: digits, and one letter
Chars == {"0", "1", "2", "3", "x"}

Strings == SeqsUpTo(Chars, MaxLen)

\* a limit field: absent, or a decimal string (possibly empty)
LimitFields == {{}} \cup {{<< >>}, {<< "1" >>}, {<< "2" >>}, {<< "1", "0" >>}}

\* the limits snapshots: no chain, the chain without the token, and the
\* token with every pair of bounds
LimitLists ==
    {<< >>, << ChainLimit("eth", << TokenLimit("usdc", {<< "1" >>}, {<< "2" >>}) >>) >>,
     << ChainLimit("bsc", << >>) >>,
     << ChainLimit("bsc", << TokenLimit("eth", {<< "1" >>}, {<< "2" >>}) >>) >>}
    \cup {<< ChainLimit("bsc", << TokenLimit("usdc", lo, hi) >>) >> :
             lo \in LimitFields, hi \in LimitFields}

InitAmount ==
    /\ IdleFlow
    /\ vin \in {[limits |-> l, chainId |-> "bsc", tokenId |-> "usdc", amount |-> a] :
                   l \in LimitLists, a \in Strings}
    /\ vout = << >>

\* validateAmount(swapLimits, toChain, toToken, parseFloat(amount))
CallValidateAmount ==
    /\ pc = "call"
    /\ pc' = "called"
    /\ vout' = validateAmount(vin.limits, vin.chainId, vin.tokenId, parseFloat(vin.amount))
    /\ UNCHANGED << flowVars, vin >>

NextAmount == CallValidateAmount

SpecAmount == InitAmount /\ [][NextAmount]_vars

\* the results each method is answered with
ResultsOf(method) ==
    CASE method = "getSupportedChains" -> FlowChainLists
      [] method = "getSwapLimits" -> FlowLimitLists
      [] method = "encodeSwap" -> EncodeResults
      [] OTHER -> SubmitResults

Methods == {"getSupportedChains", "getSwapLimits", "encodeSwap", "submitSwap"}

InitApi ==
    /\ IdleFlow
    /\ \E m \in Methods :
         vin \in {[method |-> m, response |-> r] : r \in AllResponses(ResultsOf(m))}
    /\ vout = << >>

CallApi ==
    /\ pc = "call"
    /\ pc' = "called"
    /\ vout' = CASE vin.method = "getSupportedChains" -> getSupportedChains(vin.response)
                 [] vin.method = "getSwapLimits" -> getSwapLimits(vin.response)
                 [] vin.method = "encodeSwap" -> encodeSwap(vin.response)
                 [] OTHER -> submitSwap(vin.response)
    /\ UNCHANGED << flowVars, vin >>

NextApi == CallApi

SpecApi == InitApi /\ [][NextApi]_vars

\* encodeSwap on its own: the arguments and the relayer's answer are drawn
\* by the initial state, one action builds the body, posts it and decodes
EncodeArguments ==
    [from : {<< "eth", "usdc" >>}, to : {<< "bsc", "usdc" >>},
     amount : {<< "1" >>, << >>},
     fromAddress : {"0xA1", "0xT", ""},
     recipient : {"0xR", ""},
     fromContract : {{}, {FALSE}, {TRUE}},
     dataToContract : {undefined, "", "0xdata"}]

EncodeAnswers ==
    AllResponses({r \in EncodeResults :
                     r.signingRequest = {} /\ r.initiator = undefined /\ r.fromContract = undefined})

InitEncode ==
    /\ IdleFlow
    /\ vin \in {[args |-> a, response |-> r] : a \in EncodeArguments, r \in EncodeAnswers}
    /\ vout = << >>

CallEncodeSwap ==
    /\ pc = "call"
    /\ pc' = "called"
    /\ vout' = [request |-> encodeSwapPayload(vin.args.from, vin.args.to, vin.args.amount,
                                               vin.args.fromAddress, vin.args.recipient,
                                               vin.args.fromContract, vin.args.dataToContract),
                outcome |-> encodeSwap(vin.response)]
    /\ UNCHANGED << flowVars, vin >>

NextEncode == CallEncodeSwap

SpecEncode == InitEncode /\ [][NextEncode]_vars

-----------------------------------------------------------------------------
(* Properties *)

\* positions of the trace holding an operation of that name
At(op) == {i \in 1..Len(trace) : trace[i].op = op}

Issued(op) == At(op) # {}

ChainOps == {"deploy", "deployWait", "estimateGas", "sendTransaction", "wait"}

SubmitOps == {"submitSwap", "submitSwapFromContract"}

\* the flow returned to the command action without throwing
Succeeded == pc \in {"returned", "exited"} /\ thrown = {}

\* the (chain, token) pair is listed by the registry snapshot
Listed(chains, chainId, tokenId) ==
    \E i \in 1..Len(chains) :
        /\ chains[i].id = chainId
        /\ \E j \in 1..Len(chains[i].tokens) : chains[i].tokens[j].id = tokenId

\* C1: with --dry-run, runBridge never issues a submitSwap request; a dry run
\* that got past validation has issued the encode request, and one that ends
\* successfully has signed the hash of the encode response it holds.
C1_DryRunNeverSubmits ==
    (flow = "bridge" /\ options.dryRun) =>
        /\ ~Issued("submitSwap")
        /\ pc # "submit"
        /\ (pc = "sign" \/ Succeeded) => Issued("encodeSwap")
        /\ Succeeded =>
             \E d \in encodedData : \E r \in d.signingRequest :
                 /\ \E i \in At("encodeSwap"), j \in At("signMessageHash") :
                        i < j /\ trace[j].arg.hash = r.hash
                 /\ signature = signMessageHash(r.hash, privateKey)

C1_Witness ==
    /\ flow = "bridge"
    /\ options.dryRun
    /\ pc = "exited"
    /\ exitCode = {0}
    /\ Issued("signMessageHash")

\* C2: with --dry-run, runContractBridge never deploys, estimates gas or
\* sends a transaction, whatever the overrides, the deploy flag and the
\* relayer answer; a dry run that reaches the encode step has resolved the
\* Meson contract address, and one that ends successfully has issued the
\* encode request.
C2_ContractDryRunNoChainOps ==
    (flow = "bridge-contract" /\ options.dryRun) =>
        /\ \A i \in 1..Len(trace) : trace[i].op \notin ChainOps
        /\ pc \notin {"deploy", "callTransferToMeson", "estimateGas", "send", "wait"}
        /\ (pc = "encodeContract" \/ Succeeded) => Truthy(mesonContractAddress)
        /\ Succeeded => Issued("encodeSwap")

C2_Witness ==
    /\ flow = "bridge-contract"
    /\ options.dryRun
    /\ options.deployIfMissing
    /\ Falsy(options.transferContract)
    /\ pc = "exited"
    /\ exitCode = {0}
    /\ Issued("encodeSwap")

\* C3: runBridge issues no chain operation, runContractBridge issues no
\* relayer submission (POST /swap/{encoded} or POST /swap/from-contract/
\* {encoded}), and no run has both a relayer submission and a transaction.
C3_PathwaysExclusive ==
    /\ flow = "bridge" => \A i \in 1..Len(trace) : trace[i].op \notin ChainOps
    /\ flow = "bridge-contract" => \A i \in 1..Len(trace) : trace[i].op \notin SubmitOps
    /\ ~(\E i, j \in 1..Len(trace) : trace[i].op \in SubmitOps /\ trace[j].op \in ChainOps)

C3_Witness ==
    /\ flow = "bridge-contract"
    /\ pc = "exited"
    /\ exitCode = {0}
    /\ Issued("sendTransaction")
    /\ Issued("wait")

\* the three validations of the snapshots the run holds all passed
ValidationPassed ==
    /\ Listed(supportedChains, ChainOf(options.from), TokenOf(options.from))
    /\ Listed(supportedChains, ChainOf(options.to), TokenOf(options.to))
    /\ validateAmount(swapLimits, ChainOf(options.to), TokenOf(options.to),
                      parseFloat(options.amount)).error = {}

\* C4: in runBridge the encode request comes after both registry requests
\* and only when the three validations passed; the submit request comes after
\* the encode request returned a result and after the hash was signed.
C4_BridgeOrder ==
    flow = "bridge" =>
        /\ \A e \in At("encodeSwap") :
             /\ \E c \in At("getSupportedChains"), l \in At("getSwapLimits") :
                    c < l /\ l < e
             /\ ValidationPassed
        /\ \A s \in At("submitSwap") :
             /\ \E c \in At("getSupportedChains"), l \in At("getSwapLimits"),
                   e \in At("encodeSwap"), g \in At("signMessageHash") :
                    c < l /\ l < e /\ e < g /\ g < s
             /\ ValidationPassed
             /\ encodedData # {}
             /\ signature # << >>

C4_Witness ==
    /\ flow = "bridge"
    /\ Issued("submitSwap")
    /\ pc = "exited"

\* C5: once a step has thrown, the invocation issues no further relayer
\* request, signing or chain operation, no second error replaces the first,
\* and what the command action prints is the message of the error as thrown.
C5_FailureStopsAndSurfaces ==
    [][ /\ raisedAt # {} => (trace' = trace /\ raisedAt' = raisedAt)
        /\ (raisedAt' # {} /\ pc' = "exited") =>
              /\ stderr' # << >>
              /\ stderr'[Len(stderr')] =
                    << "\nError:", (CHOOSE r \in raisedAt' : TRUE).error.message >>
              /\ exitCode' = {1} ]_vars

C5_Witness ==
    /\ pc = "exited"
    /\ exitCode = {1}
    /\ \E r \in raisedAt : r.at = "wait"
    /\ Issued("sendTransaction")

\* C6: the submitSwap request is keyed by the encoded identifier of the encode
\* response the run holds; its signature is the one over that response's
\* signing hash under the key whose address is the fromAddress of both the
\* encode and the submit request; both requests name the same recipient.
C6_SubmitBoundToEncode ==
    \A s \in At("submitSwap") :
        \E e \in At("encodeSwap") : \E d \in encodedData : \E r \in d.signingRequest :
            /\ e < s
            /\ trace[s].arg.encodedSwap = d.encoded
            /\ \E k \in GoodKeys :
                  /\ trace[s].arg.signature = signMessageHash(r.hash, k)
                  /\ deriveAddress(k) = trace[s].arg.fromAddress
                  /\ deriveAddress(k) = trace[e].arg.fromAddress
            /\ trace[s].arg.recipient = trace[e].arg.recipient

C6_Witness ==
    /\ flow = "bridge"
    /\ Issued("submitSwap")
    /\ options.privateKey = "k1"
    /\ env = "k2"

\* which way a validateChainToken call ended, read off what it threw
Ended(error) ==
    IF error = {} THEN "returned"
    ELSE IF (CHOOSE e \in error : TRUE).message[2] = " chain '" THEN "unsupported chain"
    ELSE "unsupported token"

HasLimit(limits, chainId, tokenId) ==
    \E i \in 1..Len(limits) :
        /\ limits[i].id = chainId
        /\ \E j \in 1..Len(limits[i].tokens) : limits[i].tokens[j].id = tokenId

\* the entry of the pair (the limits snapshots list a pair once)
LimitOf(limits, chainId, tokenId) ==
    LET i == CHOOSE i \in 1..Len(limits) :
                 /\ limits[i].id = chainId
                 /\ \E j \in 1..Len(limits[i].tokens) : limits[i].tokens[j].id = tokenId
        j == CHOOSE j \in 1..Len(limits[i].tokens) : limits[i].tokens[j].id = tokenId
    IN  limits[i].tokens[j]

\* min <= amount <= max, an absent min being 0 and an absent max unbounded
InRange(amount, limit) ==
    LET lo == IF limit.min \in {{}, {<< >>}} THEN 0
              ELSE parseFloat(CHOOSE x \in limit.min : TRUE)
    IN  /\ amount # NaN
        /\ lo <= amount
        /\ \/ limit.max \in {{}, {<< >>}}
           \/ amount <= parseFloat(CHOOSE x \in limit.max : TRUE)

\* C8: when the limits snapshot has an entry for the pair, validateAmount
\* returns exactly when min <= amount <= max (absent min 0, absent max
\* unbounded), and throws for every other amount.
C8_AmountWithinLimits ==
    (pc = "called" /\ HasLimit(vin.limits, vin.chainId, vin.tokenId)) =>
        (vout.error = {} <=>
            InRange(parseFloat(vin.amount), LimitOf(vin.limits, vin.chainId, vin.tokenId)))

\* what holds of validateAmount: the same, for the amounts that are numbers
C8_NumericAmountWithinLimits ==
    (pc = "called" /\ HasLimit(vin.limits, vin.chainId, vin.tokenId)
       /\ parseFloat(vin.amount) # NaN) =>
        (vout.error = {} <=>
            InRange(parseFloat(vin.amount), LimitOf(vin.limits, vin.chainId, vin.tokenId)))

\* C9: when the limits snapshot has no entry for the destination chain, or
\* none for the destination token, validation throws nothing whatever the
\* amount: it prints one warning and the flow goes on to its next step.  It
\* is the only condition handled in place: once anything is thrown the flow
\* is over, and a warning is printed for no other reason.
C9_MissingLimitsOnlyWarn ==
    [][ /\ ( /\ pc = "validate"
             /\ Listed(supportedChains, ChainOf(options.from), TokenOf(options.from))
             /\ Listed(supportedChains, ChainOf(options.to), TokenOf(options.to))
             /\ ~HasLimit(swapLimits, ChainOf(options.to), TokenOf(options.to)) ) =>
               /\ pc' = (IF flow = "bridge" THEN "encode" ELSE "resolve")
               /\ raisedAt' = {}
               /\ Len(warnings') = Len(warnings) + 1
        /\ raisedAt' # {} => pc' \in {"caught", "exited"}
        /\ warnings' # << >> =>
               ~HasLimit(swapLimits', ChainOf(options.to), TokenOf(options.to)) ]_vars

C9_Witness ==
    /\ pc = "sign"
    /\ warnings # << >>
    /\ swapLimits # << >>
    /\ parseFloat(options.amount) = NaN

\* the fixed text each method puts before the relayer's message
PrefixOf(method) ==
    CASE method = "getSupportedChains" -> "Error fetching supported chains: "
      [] method = "getSwapLimits" -> "Error fetching swap limits: "
      [] method = "encodeSwap" -> "Error encoding swap: "
      [] OTHER -> "Error submitting swap: "

\* the response is an error envelope: a body with an error and no result
IsErrorEnvelope(r) == ~r.rejected /\ r.data.result = {} /\ r.data.error # {}

\* the outcome of a request method for the responses that are no error
\* envelope, and one outcome in all
DecodedOtherwise ==
    LET r == vin.response
    IN  /\ Cardinality(vout.value) + Cardinality(vout.error) = 1
        /\ r.rejected =>
              \E e \in vout.error : e.isAxiosError /\ e.message = << r.reason >>
        /\ (~r.rejected /\ r.data.result # {}) => vout.value = r.data.result
        /\ (~r.rejected /\ r.data.result = {} /\ r.data.error = {}) =>
              vout.error = {Error(<< "Invalid response format from Meson API" >>)}

\* C10 as stated: the error raised for an error envelope carries the
\* relayer's error code and its message.
C10_ServiceErrorCarriesCode ==
    pc = "called" =>
        /\ DecodedOtherwise
        /\ IsErrorEnvelope(vin.response) =>
              \E e \in vout.error : \E sent \in vin.response.data.error :
                  /\ ~e.isAxiosError
                  /\ "code" \in DOMAIN e
                  /\ e.code = sent.code
                  /\ e.message[Len(e.message)] = sent.message

\* C10, amended: every response has exactly one outcome.  The result is
\* returned when the body holds one; a body with an error and no result
\* raises an error whose message is the method's prefix followed by the
\* relayer's message, the relayer's code being dropped; a body with neither
\* raises the invalid-format error; a rejected request raises the transport
\* error unchanged.
C10_Decoded ==
    pc = "called" =>
        /\ DecodedOtherwise
        /\ IsErrorEnvelope(vin.response) =>
              \E e \in vout.error : \E sent \in vin.response.data.error :
                  /\ ~e.isAxiosError
                  /\ DOMAIN e = {"message", "isAxiosError"}
                  /\ e.message = << PrefixOf(vin.method), sent.message >>

C10_Witness ==
    /\ pc = "called"
    /\ "method" \in DOMAIN vin
    /\ vin.method = "encodeSwap"
    /\ ~vin.response.rejected
    /\ vin.response.data.result = {}
    /\ \E sent \in vin.response.data.error : sent.code = 400 /\ sent.message = "bad request"
    /\ vout.error # {}

\* a non-dry contract run with no --transfer-contract and no --deploy-if-missing
NoIntermediary ==
    /\ flow = "bridge-contract"
    /\ ~options.dryRun
    /\ Falsy(options.transferContract)
    /\ ~options.deployIfMissing

\* the encode response passed runContractBridge's check
EncodePassed == \E d \in encodedData : Truthy(d.encoded)

EncodeRequests == {trace[i].arg : i \in At("encodeSwap")}

\* the transfer contract a contract run holds when it encodes: the override,
\* or the contract the run deployed
IntermediaryAtEncode ==
    IF Truthy(options.transferContract) THEN options.transferContract
    ELSE IF Issued("deployWait") THEN DeployedAddress
    ELSE undefined

C12_WitnessWallet ==
    /\ flow = "bridge-contract"
    /\ Falsy(options.transferContract)
    /\ \E r \in EncodeRequests : r.fromAddress = fromAddress

\* the initiator arguments of the transferToMeson calls the run built
InitiatorArgs == {trace[i].arg.initiator : i \in At("estimateGas") \cup At("sendTransaction")}

\* C13 as stated: the initiator passed to transferToMeson is the address
\* derived from the caller's private key, whether the encode response
\* carries an initiator or not.
C13_InitiatorIsCaller ==
    flow = "bridge-contract" =>
        /\ \A a \in InitiatorArgs : a = deriveAddress(privateKey)
        /\ pc \in {"estimateGas", "send", "wait"} => ctm.initiator = deriveAddress(privateKey)

\* C13, what does hold: the initiator passed is the one of the encode
\* response when it carries one, and the caller's derived address otherwise.
C13_InitiatorRelayerFirst ==
    flow = "bridge-contract" =>
        \A a \in InitiatorArgs :
            \E d \in encodedData :
                /\ a = d.initiator
                /\ a \in {"0xI", deriveAddress(privateKey)}

\* the deployment of a transfer contract is asked for and not rehearsed
DeployRequested ==
    /\ Falsy(options.transferContract)
    /\ options.deployIfMissing
    /\ ~options.dryRun

RegistryAddresses ==
    {supportedChains[i].address : i \in {j \in 1..Len(supportedChains) :
        /\ supportedChains[j].id = ChainOf(options.from)
        /\ Truthy(supportedChains[j].address)}}

ContractAddressNotFound ==
    Error(<< "Could not find Meson contract address for chain ", ChainOf(options.from),
             ". Please provide it with --meson-contract option." >>)

\* the steps of runContractBridge that come before the resolution
BeforeResolve ==
    {"key", "derive", "getSupportedChains", "getSwapLimits",
     "validateSource", "validateDestination", "validateAmount"}

\* C15: the Meson contract address a contract run resolves is the
\* --meson-contract override when one is given, and otherwise the address
\* field of the source chain's registry entry; with neither, the run does not
\* get past the resolution, where it throws the address-not-found error, and
\* it issues no deployment, no encode request and no transaction.
C15_MesonContractFallback ==
    flow = "bridge-contract" =>
        /\ Truthy(mesonContractAddress) =>
              IF Truthy(options.mesonContract)
              THEN mesonContractAddress = options.mesonContract
              ELSE mesonContractAddress \in RegistryAddresses
        /\ (Issued("deploy") \/ Issued("encodeSwap")) => Truthy(mesonContractAddress)
        /\ (Falsy(options.mesonContract) /\ RegistryAddresses = {}) =>
              /\ Falsy(mesonContractAddress)
              /\ ~Issued("encodeSwap")
              /\ \A i \in 1..Len(trace) : trace[i].op \notin ChainOps
              /\ pc \in {"caught", "exited"} =>
                    \E r \in raisedAt :
                        \/ r.at \in BeforeResolve
                        \/ r.at = "resolve" /\ r.error = ContractAddressNotFound
        /\ \A r \in raisedAt :
              r.at = "resolve" =>
                  /\ r.error = ContractAddressNotFound
                  /\ Falsy(options.mesonContract)
                  /\ RegistryAddresses = {}

C15_Witness ==
    /\ flow = "bridge-contract"
    /\ Falsy(options.mesonContract)
    /\ RegistryAddresses = {}
    /\ pc = "exited"
    /\ thrown = {ContractAddressNotFound}

\* a second case of C15: the registry supplies the address
C15_WitnessRegistry ==
    /\ flow = "bridge-contract"
    /\ Falsy(options.mesonContract)
    /\ mesonContractAddress \in RegistryAddresses
    /\ Issued("encodeSwap")

\* C16: runBridge throws the failed-to-encode error, before it signs or
\* submits, for an encode result whose encoded value is missing or empty or
\* that has no signing request, and for no other result; runContractBridge
\* throws it, before it estimates or sends a transaction, for a result whose
\* encoded value is missing or empty, and for no other: a result without a
\* signing request goes on.
C16_EncodeResultChecked ==
    \A d \in encodedData :
        LET failed == \E r \in raisedAt : r.at = "checkEncoded"
            stopped == /\ pc \in {"caught", "exited"}
                       /\ thrown = {FailedToEncode}
                       /\ failed
        IN  /\ flow = "bridge" =>
                  IF Falsy(d.encoded) \/ d.signingRequest = {}
                  THEN /\ stopped
                       /\ ~Issued("signMessageHash")
                       /\ ~Issued("submitSwap")
                  ELSE ~failed
            /\ flow = "bridge-contract" =>
                  IF Falsy(d.encoded)
                  THEN /\ stopped
                       /\ ~Issued("estimateGas")
                       /\ ~Issued("sendTransaction")
                  ELSE /\ ~failed
                       /\ (~options.dryRun /\ Truthy(fromContractAddress)
                             /\ ValidEther(options.amount)) =>
                             (pc \in {"callTransferToMeson", "estimateGas"}
                                \/ Issued("estimateGas"))

C16_Witness ==
    /\ flow = "bridge-contract"
    /\ \E d \in encodedData : Truthy(d.encoded) /\ d.signingRequest = {}
    /\ Issued("sendTransaction")

\* a second case of C16: runBridge stops on a result with no signing request
C16_WitnessBridge ==
    /\ flow = "bridge"
    /\ \E d \in encodedData : Truthy(d.encoded) /\ d.signingRequest = {}
    /\ thrown = {FailedToEncode}
    /\ pc = "exited"

\* C17: the gas limit of every transferToMeson transaction sent is the
\* integer part of twelve tenths of the estimate obtained for it (120000 for
\* 100000, 120001 for 100001), and the estimate was asked for before the
\* transaction was sent.
C17_GasLimitIsTruncatedTwelveTenths ==
    \A j \in At("sendTransaction") :
        LET limit == trace[j].arg.gasLimit
            estimate == ctm.gasEstimate
        IN  /\ estimate \in GasEstimates
            /\ limit * 10 <= estimate * 12
            /\ estimate * 12 < (limit + 1) * 10
            /\ estimate = 100000 => limit = 120000
            /\ estimate = 100001 => limit = 120001
            /\ \E i \in At("estimateGas") : i < j

C17_Witness ==
    /\ ctm.gasEstimate = 100001
    /\ \E j \in At("sendTransaction") : trace[j].arg.gasLimit = 120001

\* C18: a contract run that is no dry run succeeds, with the hash of the
\* transaction, only after the transaction was sent and the wait for it
\* resolved; when the wait rejects, the run ends with that error, the
\* rejected wait being the last thing it did: the transaction was sent once
\* and nothing is sent after it.
C18_HashAfterConfirmation ==
    flow = "bridge-contract" =>
        /\ (Succeeded /\ ~options.dryRun) =>
              /\ ctm.hash = TxHash
              /\ \E i \in At("sendTransaction"), j \in At("wait") :
                     i < j /\ trace[j].arg.mined /\ trace[j].arg.hash = TxHash
        /\ \A j \in At("wait") :
              /\ Cardinality(At("sendTransaction")) = 1
              /\ \A i \in At("sendTransaction") : i < j
              /\ ~trace[j].arg.mined =>
                    /\ j = Len(trace)
                    /\ ~Succeeded
                    /\ pc \in {"caught", "exited"}
                    /\ thrown = {Error(<< "transaction failed" >>)}
                    /\ ctm.hash = TxHash

C18_Witness ==
    /\ flow = "bridge-contract"
    /\ \E j \in At("wait") : ~trace[j].arg.mined
    /\ pc = "exited"
    /\ exitCode = {1}

\* a rehearsal of the contract flow with no override and no deployment asked
BareDryRun ==
    /\ flow = "bridge-contract"
    /\ options.dryRun
    /\ Falsy(options.mesonContract)
    /\ Falsy(options.transferContract)
    /\ ~options.deployIfMissing

\* C19: in a dry run of the contract flow with no --meson-contract, no
\* --transfer-contract and no --deploy-if-missing, the Meson contract
\* resolves to the address field of the source chain's registry entry, and
\* once the encode response passed the check the run returns successfully,
\* the encode request being the last thing it issued: no deployment, no
\* transaction, and the missing transfer contract raises no error.
C19_BareDryRunStopsAfterEncode ==
    BareDryRun =>
        /\ (RegistryAddresses # {} /\ (pc = "encodeContract" \/ Issued("encodeSwap"))) =>
              mesonContractAddress \in RegistryAddresses
        /\ thrown # {MissingTransferContract}
        /\ \A i \in 1..Len(trace) : trace[i].op \notin ChainOps
        /\ EncodePassed =>
              /\ Succeeded
              /\ trace[Len(trace)].op = "encodeSwap"
              /\ mesonContractAddress \in RegistryAddresses
              /\ pc = "exited" => exitCode = {0}

C19_Witness ==
    /\ BareDryRun
    /\ EncodePassed
    /\ mesonContractAddress = "0xAAA"
    /\ pc = "exited"
    /\ exitCode = {0}

EncodeFields == {"from", "to", "amount", "fromAddress", "recipient"}

\* C20: the body encodeSwap posts holds from, to, amount, fromAddress and
\* recipient with the values of the arguments; it holds fromContract exactly
\* when that argument is true and dataToContract exactly when that argument
\* is a non-empty string, each with the argument's value, and nothing else.
C20_EncodeRequestBody ==
    pc = "called" =>
        LET body == vout.request
            args == vin.args
        IN  /\ EncodeFields \subseteq DOMAIN body
            /\ \A f \in EncodeFields : body[f] = args[f]
            /\ DOMAIN body \subseteq EncodeFields \cup {"fromContract", "dataToContract"}
            /\ "fromContract" \in DOMAIN body <=> args.fromContract = {TRUE}
            /\ "fromContract" \in DOMAIN body => body.fromContract = TRUE
            /\ "dataToContract" \in DOMAIN body <=>
                  args.dataToContract \notin {undefined, ""}
            /\ "dataToContract" \in DOMAIN body =>
                  body.dataToContract = args.dataToContract

C20_Witness ==
    /\ pc = "called"
    /\ vin.args.fromContract = {FALSE}
    /\ vin.args.dataToContract = "0xdata"
    /\ DOMAIN vout.request = EncodeFields \cup {"dataToContract"}

RelayerOps == {"getSupportedChains", "getSwapLimits", "encodeSwap", "submitSwap"}

\* C21: in one invocation each relayer request is issued at most once, and a
\* request that failed is the last thing the invocation issued; an
\* invocation that validates has fetched the chain list and then the limits
\* itself, the snapshots it holds are the ones it fetched, and its encode
\* request is issued only for a pair the snapshot it fetched lists.
C21_NoRetryNoCache ==
    /\ \A op \in RelayerOps : Cardinality(At(op)) <= 1
    /\ \A r \in raisedAt :
          r.at \in RelayerOps =>
              /\ trace[Len(trace)].op = r.at
              /\ pc \in {"caught", "exited"}
    /\ supportedChains # << >> => Issued("getSupportedChains")
    /\ swapLimits # << >> => Issued("getSwapLimits")
    /\ (pc = "validate" \/ Issued("encodeSwap")
          \/ \E r \in raisedAt : r.at \in {"validateSource", "validateDestination", "validateAmount"}) =>
          \E i \in At("getSupportedChains"), j \in At("getSwapLimits") : i < j
    /\ Issued("encodeSwap") =>
          /\ Listed(supportedChains, ChainOf(options.from), TokenOf(options.from))
          /\ Listed(supportedChains, ChainOf(options.to), TokenOf(options.to))

C21_Witness ==
    /\ \E r \in raisedAt : r.at = "encodeSwap"
    /\ pc = "exited"
    /\ Cardinality(At("encodeSwap")) = 1
    /\ Cardinality(At("getSupportedChains")) = 1

\* the flow ran to its end: the swap was submitted, the transaction was
\* confirmed, or the dry run stopped
Completed ==
    /\ thrown = {}
    /\ IF options.dryRun
       THEN Issued("encodeSwap") /\ ~Issued("submitSwap") /\ ~Issued("sendTransaction")
       ELSE IF flow = "bridge"
       THEN trace[Len(trace)].op = "submitSwap"
       ELSE \E j \in At("wait") : trace[j].arg.mined

\* C22: a command that ended has status 0 exactly when its flow completed
\* without throwing, and status 1 exactly when a step threw, the message of
\* the thrown error then being the last thing printed on the error stream;
\* nothing is printed there by the command when the flow completed.
C22_ExitStatus ==
    pc = "exited" =>
        /\ exitCode \in {{0}, {1}}
        /\ exitCode = {0} <=> Completed
        /\ exitCode = {1} <=> thrown # {}
        /\ thrown # {} =>
              /\ Len(stderr) >= 1
              /\ stderr[Len(stderr)] = << "\nError:", (CHOOSE e \in thrown : TRUE).message >>
        /\ thrown = {} => stderr = << >>

C22_Witness ==
    /\ pc = "exited"
    /\ exitCode = {1}
    /\ \E r \in raisedAt : r.at = "sendTransaction"
    /\ stderr = << << "\nError:", << "transaction rejected" >> >> >>

\* a second case of C22: a completed flow
C22_WitnessCompleted ==
    /\ pc = "exited"
    /\ exitCode = {0}
    /\ flow = "bridge"
    /\ Issued("submitSwap")

\* the three ways an invocation ends
Submitted == thrown = {} /\ ~options.dryRun /\ (Issued("submitSwap") \/ Issued("wait"))

DryRunComplete == thrown = {} /\ options.dryRun /\ Issued("encodeSwap")

Failed == thrown # {} /\ exitCode = {1}

Terminal ==
    /\ pc = "exited"
    /\ Cardinality({b \in {<< 1, Submitted >>, << 2, DryRunComplete >>, << 3, Failed >>} : b[2]}) = 1

\* C23: when every awaited call settles, every invocation ends: from some
\* point on it is exited, in exactly one of submitted, dry run complete and
\* failed; and no step is taken from an exited invocation.
C23_ReachesOneTerminalState ==
    /\ <>[]Terminal
    /\ [][pc # "exited"]_vars

C23_Witness ==
    /\ Terminal
    /\ DryRunComplete
    /\ flow = "bridge-contract"

\* C25 as stated: every transferToMeson transaction a contract run sends goes
\* to the address its encode request gave as fromAddress.
C25_SentToEncodingAddress ==
    flow = "bridge-contract" =>
        \A j \in At("sendTransaction") :
            \E i \in At("encodeSwap") :
                i < j /\ trace[j].arg.to = trace[i].arg.fromAddress

\* C25, what does hold: the two addresses agree in every run that held a
\* transfer contract when it encoded (the override or the one it deployed);
\* in a run that held none the encode request carries the caller's address
\* and the transaction goes to the fromContract of the encode response.
C25_SentToEncodingAddressWhenHeld ==
    flow = "bridge-contract" =>
        \A j \in At("sendTransaction") :
            \E i \in At("encodeSwap") :
                /\ i < j
                /\ IF Truthy(IntermediaryAtEncode)
                   THEN /\ trace[j].arg.to = IntermediaryAtEncode
                        /\ trace[i].arg.fromAddress = IntermediaryAtEncode
                   ELSE /\ trace[i].arg.fromAddress = fromAddress
                        /\ \E d \in encodedData : trace[j].arg.to = d.fromContract

\* C26 as stated: with a limits entry for the destination pair, an encode
\* request is issued only for an amount that parses to a number within
\* [min, max]; an amount that parses to no number never reaches the encode
\* step.
C26_EncodeOnlyWithinLimits ==
    /\ (Issued("encodeSwap")
          /\ HasLimit(swapLimits, ChainOf(options.to), TokenOf(options.to))) =>
          InRange(parseFloat(options.amount),
                  LimitOf(swapLimits, ChainOf(options.to), TokenOf(options.to)))
    /\ parseFloat(options.amount) = NaN =>
          /\ ~Issued("encodeSwap")
          /\ pc \notin {"encode", "resolve", "deploy", "encodeContract"}

\* C26, what does hold: the same for every amount that parses to a number
C26_NumericEncodeOnlyWithinLimits ==
    (Issued("encodeSwap")
       /\ parseFloat(options.amount) # NaN
       /\ HasLimit(swapLimits, ChainOf(options.to), TokenOf(options.to))) =>
       InRange(parseFloat(options.amount),
               LimitOf(swapLimits, ChainOf(options.to), TokenOf(options.to)))

\* the key the invocation is to use
ExpectedKey == IF options.privateKey \notin {undefined, ""} THEN options.privateKey ELSE env

\* C27: the private key is the --private-key option when given and the
\* PRIVATE_KEY environment variable otherwise; with no key from either the
\* run throws the key-must-be-provided error, with a key no address derives
\* from it throws the derivation's error, and in both cases no relayer
\* request and no chain operation is issued; every other run derives its
\* address from that key.
C27_PrivateKeyResolution ==
    pc # "start" =>
        /\ privateKey = ExpectedKey
        /\ IF ExpectedKey \in {undefined, ""}
           THEN /\ trace = << >>
                /\ pc \in {"caught", "exited"}
                /\ \E r \in raisedAt : r.at = "key"
                /\ thrown = {Error(<< "Private key must be provided via --private-key option or PRIVATE_KEY environment variable." >>)}
           ELSE IF ExpectedKey \notin GoodKeys
           THEN /\ trace = << >>
                /\ pc \in {"caught", "exited"}
                /\ \E r \in raisedAt : r.at = "derive"
           ELSE /\ fromAddress = deriveAddress(ExpectedKey)
                /\ \A r \in raisedAt : r.at \notin {"key", "derive"}

C27_Witness ==
    /\ options.privateKey = "kbad"
    /\ env = "k2"
    /\ pc = "exited"
    /\ trace = << >>
    /\ exitCode = {1}

\* a second case of C27: the environment supplies the key
C27_WitnessEnv ==
    /\ options.privateKey = undefined
    /\ env = "k2"
    /\ privateKey = "k2"
    /\ Issued("encodeSwap")

\* C28: a contract run deploys at most one transfer contract, and deploys it
\* from runContractBridge: whenever callTransferToMeson gets past its
\* transfer-contract test, the deploy flag it was passed is false, the
\* address it uses is the one runContractBridge held, and no deployment was
\* issued through callTransferToMeson's connected wallet.
C28_AtMostOneDeployment ==
    flow = "bridge-contract" =>
        /\ Cardinality(At("deploy")) <= 1
        /\ Cardinality(At("deployWait")) <= 1
        /\ \A i \in At("deploy") : ~trace[i].arg.wallet.connected
        /\ (pc \in {"estimateGas", "send", "wait"} \/ Issued("estimateGas")) =>
              /\ ~ctm.deployIfMissing
              /\ ctm.transferToMesonAddress = fromContractAddress
        /\ (pc = "callTransferToMeson" /\ Issued("deploy")) =>
              fromContractAddress = DeployedAddress

C28_Witness ==
    /\ flow = "bridge-contract"
    /\ Cardinality(At("deploy")) = 1
    /\ ctm.transferToMesonAddress = DeployedAddress
    /\ ~ctm.deployIfMissing
    /\ pc = "exited"
    /\ exitCode = {0}

====
